---- MODULE Spec2Model ----
(***************************************************************************)
(* A model of the IMIGO LINE bot: the preference store and conversation    *)
(* log of database/database.py, the reply routing of main.py               *)
(* (handle_text_message, handle_postback), AIService.generate_response,    *)
(* the chat API route, the force-link script, PostbackHandler of           *)
(* services/postback_handler.py, and concurrent set_user_language and      *)
(* generate_response calls as tasks of the event loop.                     *)
(*                                                                         *)
(* Python strings that the code takes apart (message text, postback data)  *)
(* are sequences of one-character strings; strings that are only stored    *)
(* or compared (language codes, message keys) are TLA+ strings.            *)
(*                                                                         *)
(* Service wiring (dependencies.py, services/container.py) is not part of  *)
(* the model: every handler is given its services, as a test would give    *)
(* it mocks.                                                               *)
(***************************************************************************)
EXTENDS Naturals, Integers, Sequences, FiniteSets, TLC

VARIABLES
    user_preferences,   \* table user_preferences: user_id -> language
    conversations,      \* table conversations, in insertion order
    group_settings,     \* table group_settings: group_id -> row
    now,                \* the database clock, in whole seconds
    last,               \* the last operation: its input, its result, its replies
    tasks,              \* the coroutines in flight: task -> its place and locals
    _db_service,        \* dependencies._db_service: None or a DatabaseService
    databases,          \* the DatabaseService objects made, by name
    rich_menus,         \* the rich menus on the platform: rich_menu_id -> menu
    language_menus      \* RichMenuService.language_menus: language -> rich_menu_id

vars == <<user_preferences, conversations, group_settings, now, last, tasks,
          _db_service, databases, rich_menus, language_menus>>

\* ------------------------------------------------------------------ bounds

MaxLog == 3             \* rows of the conversations table (store-level runs)
MaxClock == 1           \* seconds the clock may advance
MaxExchanges == 1       \* LLM exchanges stored during a bot-level run

\* ------------------------------------------------------------- Python text

None == "<None>"

Whitespace == {" "}

UpperChars == <<"A","B","C","D","E","F","G","H","I","J","K","L","M",
                "N","O","P","Q","R","S","T","U","V","W","X","Y","Z">>
LowerChars == <<"a","b","c","d","e","f","g","h","i","j","k","l","m",
                "n","o","p","q","r","s","t","u","v","w","x","y","z">>

\* the characters of the texts the model handles
Chars == {UpperChars[i] : i \in 1..Len(UpperChars)}
         \cup {LowerChars[i] : i \in 1..Len(LowerChars)}
         \cup {"/", " ", "_"}

\* str.lower() on one character
LowerChar == [c \in Chars |->
                 IF \E i \in 1..Len(UpperChars) : UpperChars[i] = c
                 THEN LowerChars[CHOOSE i \in 1..Len(UpperChars) : UpperChars[i] = c]
                 ELSE c]

\* str.lower()
Lower(s) == [i \in 1..Len(s) |-> LowerChar[s[i]]]

RECURSIVE LStrip(_)
LStrip(s) ==
    IF s # <<>> /\ Head(s) \in Whitespace THEN LStrip(Tail(s)) ELSE s

RECURSIVE RStrip(_)
RStrip(s) ==
    IF s # <<>> /\ s[Len(s)] \in Whitespace
    THEN RStrip(SubSeq(s, 1, Len(s) - 1))
    ELSE s

\* str.strip()
Strip(s) == RStrip(LStrip(s))

\* str.startswith(prefix)
StartsWith(s, prefix) ==
    /\ Len(s) >= Len(prefix)
    /\ SubSeq(s, 1, Len(prefix)) = prefix

\* str.split(sep): every field between separators, empty ones included
RECURSIVE SplitOn(_, _, _)
SplitOn(s, sep, cur) ==
    IF s = <<>> THEN <<cur>>
    ELSE IF Head(s) = sep THEN <<cur>> \o SplitOn(Tail(s), sep, <<>>)
    ELSE SplitOn(Tail(s), sep, Append(cur, Head(s)))

\* str.split(): fields between runs of whitespace, empty ones dropped
RECURSIVE SplitWs(_, _)
SplitWs(s, cur) ==
    IF s = <<>> THEN (IF cur = <<>> THEN <<>> ELSE <<cur>>)
    ELSE IF Head(s) \in Whitespace
         THEN (IF cur = <<>> THEN <<>> ELSE <<cur>>) \o SplitWs(Tail(s), <<>>)
         ELSE SplitWs(Tail(s), Append(cur, Head(s)))

Split(s) == SplitWs(s, <<>>)

\* the Python string a character sequence stands for
RECURSIVE Join(_)
Join(s) == IF s = <<>> THEN "" ELSE Head(s) \o Join(Tail(s))

\* Python truthiness of an Optional[str]
Truthy(v) == v # None /\ v # ""

\* ------------------------------------------------------------------ config

SUPPORTED_LANGUAGES == {"id", "zh", "en", "vi"}

MESSAGES == [l \in {"id", "zh", "en", "vi"} |->
                {"welcome", "cleared", "language_changed", "language_select", "help"}]

\* BotConfig.language: DEFAULT_LANGUAGE, "en" when the variable is not set
DefaultLanguage == "en"

is_valid_language_any(lang_code) == TRUE

is_valid_language(lang_code) == lang_code \in SUPPORTED_LANGUAGES

\* BotConfig.get_message: the text of `key` in `language`, written key@lang;
\* an unknown language falls back to English, an unknown key to the key.
get_message(key, language) ==
    LET lang == IF Truthy(language) THEN language ELSE DefaultLanguage
        table == IF lang \in DOMAIN MESSAGES THEN lang ELSE "en"
    IN IF key \in MESSAGES[table] THEN key \o "@" \o table ELSE key

\* ---------------------------------------------------------------- database

\* DatabaseService.get_user_language: the stored language, "en" when the
\* query yields no row (or an empty string).
get_user_language(prefs, user_id) ==
    LET lang == IF user_id \in DOMAIN prefs THEN prefs[user_id] ELSE None
    IN IF Truthy(lang) THEN lang ELSE "en"

\* A set_user_language that inserts a row for a new user and leaves the row
\* of a known user as it is.
set_user_language_insert_only(prefs, user_id, language) ==
    IF user_id \in DOMAIN prefs
    THEN prefs
    ELSE [x \in DOMAIN prefs \cup {user_id} |->
             IF x = user_id THEN language ELSE prefs[x]]

set_user_language_all(prefs, user_id, language) ==
    [x \in DOMAIN prefs \cup {user_id} |-> language]

\* DatabaseService.set_user_language: update the user's row, or add one.
\* The language is stored as given.  (created_at / updated_at of the row
\* are read by no operation and are left out.)
set_user_language(prefs, user_id, language) ==
    IF user_id \in DOMAIN prefs
    THEN [prefs EXCEPT ![user_id] = language]
    ELSE [x \in DOMAIN prefs \cup {user_id} |->
             IF x = user_id THEN language ELSE prefs[x]]

save_message_keyed(conv, t, user_id, role, content) ==
    Append(SelectSeq(conv, LAMBDA r : ~(/\ r.user_id = user_id
                                        /\ r.role = role
                                        /\ r.created_at = t)),
           [user_id |-> user_id, role |-> role,
            content |-> content, created_at |-> t])

\* DatabaseService.save_message: one more row, created_at = func.now(),
\* the database clock, which counts whole seconds.
save_message(conv, t, user_id, role, content) ==
    Append(conv, [user_id |-> user_id, role |-> role,
                  content |-> content, created_at |-> t])

\* the rows of one user, in insertion order
RowsOf(conv, user_id) == SelectSeq(conv, LAMBDA r : r.user_id = user_id)

Reverse(s) == [i \in 1..Len(s) |-> s[Len(s) + 1 - i]]

Min(a, b) == IF a <= b THEN a ELSE b

\* the orders in which ORDER BY created_at DESC may deliver `rows`: rows of
\* equal created_at come in an order the database chooses
DescOrders(rows) ==
    LET n == Len(rows)
        perms == {p \in [1..n -> 1..n] : \A i, j \in 1..n : i # j => p[i] # p[j]}
    IN {p \in perms :
           \A i, j \in 1..n :
               i < j => rows[p[i]].created_at >= rows[p[j]].created_at}

\* the dict get_conversation_history builds from a row
AsDict(r) == [role |-> r.role, content |-> r.content, timestamp |-> r.created_at]

\* DatabaseService.get_conversation_history: the results the query
\* (WHERE user_id, ORDER BY created_at DESC, LIMIT limit) followed by
\* rows.reverse() can produce.
get_conversation_history(conv, user_id, limit) ==
    LET rows == RowsOf(conv, user_id)
        k == Min(limit, Len(rows))
    IN {Reverse([i \in 1..k |-> AsDict(rows[p[i]])]) : p \in DescOrders(rows)}

\* A clear_user_conversation whose DELETE has lost its WHERE clause.
clear_user_conversation_all(conv, user_id) ==
    [conv |-> <<>>, count |-> Len(conv)]

\* DatabaseService.clear_user_conversation: delete the user's rows, return
\* their number (rowcount or 0).
clear_user_conversation(conv, user_id) ==
    [conv  |-> SelectSeq(conv, LAMBDA r : r.user_id # user_id),
     count |-> Len(RowsOf(conv, user_id))]

SecondsPerDay == 86400

\* DatabaseService.cleanup_old_conversations.  The cutoff is
\* datetime.now() - timedelta(days=days_old): the wall clock of the host in
\* its local time zone, utc_offset seconds ahead of UTC.  created_at is
\* func.now(), SQLite's CURRENT_TIMESTAMP, the time in UTC written as text
\* to the second; the cutoff is bound as text with microseconds, so that a
\* row of the cutoff's own second compares as smaller.
cleanup_old_conversations(conv, t, utc_offset, days_old) ==
    LET cutoff == (t + utc_offset) - days_old * SecondsPerDay
        old(r) == r.created_at <= cutoff
    IN [conv  |-> SelectSeq(conv, LAMBDA r : ~old(r)),
        count |-> Len(SelectSeq(conv, old))]

\* DatabaseService.get_group_settings: None without a row.  With a row it
\* reads settings.translate_enabled and settings.enabled_by, attributes the
\* GroupSettings model (translation_enabled, target_language) does not
\* have, and raises AttributeError.
get_group_settings(gs, group_id) ==
    IF group_id \in DOMAIN gs
    THEN [raised |-> "AttributeError", value |-> None]
    ELSE [raised |-> None, value |-> None]

\* DatabaseService.enable_group_translation.  With a row: translate_enabled
\* and enabled_by are set as plain attributes of the loaded object, which
\* are no columns of GroupSettings and are not written; target_language is
\* a column and is updated.  Without a row: the GroupSettings constructor
\* is given translate_enabled and enabled_by and raises TypeError.
enable_group_translation(gs, group_id, target_language, enabled_by) ==
    IF group_id \in DOMAIN gs
    THEN [gs     |-> [gs EXCEPT ![group_id].target_language = target_language],
          raised |-> None]
    ELSE [gs |-> gs, raised |-> "TypeError"]

\* DatabaseService.disable_group_translation.  With a row: translate_enabled
\* is set as a plain attribute of the loaded object; no column other than
\* updated_at changes.  Without a row: nothing.
disable_group_translation(gs, group_id) ==
    [gs |-> gs, raised |-> None]

\* -------------------------------------------------------------- AI service

\* the outcomes of client.models.generate_content: a response, or an error
LLMOutcomes == {"ok", "fail"}

\* response.text.strip() of a response
LLMReply == "llm-reply"

\* AIService.error_messages
ErrorLanguages == {"en", "zh", "id", "vi", "th", "fil", "my", "km"}

error_message(user_language) ==
    "error@" \o (IF user_language \in ErrorLanguages THEN user_language ELSE "en")

\* the outcomes of the two save_message calls of generate_response: both
\* commit, the first raises, or the first commits and the second raises
WriteOutcomes == {"ok", "user_fails", "assistant_fails"}

\* AIService.generate_response.  The history it reads only shapes the
\* prompt.  When the LLM answers, the user message and the answer are
\* saved, each in a transaction of its own, and the answer is returned;
\* when anything in the try block raises (the LLM call, a save_message),
\* the except clause returns error_messages[user_language].
generate_response(prefs, conv, t, user_id, message, llm, db) ==
    LET user_saved == save_message(conv, t, user_id, "user", message)
        error      == error_message(get_user_language(prefs, user_id))
    IN
    IF llm # "ok" THEN
        [ret |-> error, conv |-> conv, llm_calls |-> 1, raised |-> None]
    ELSE IF db = "user_fails" THEN
        [ret |-> error, conv |-> conv, llm_calls |-> 1, raised |-> None]
    ELSE IF db = "assistant_fails" THEN
        [ret |-> error, conv |-> user_saved, llm_calls |-> 1, raised |-> None]
    ELSE
        [ret       |-> LLMReply,
         conv      |-> save_message(user_saved, t, user_id, "assistant", LLMReply),
         llm_calls |-> 1,
         raised    |-> None]

\* ------------------------------------------------------------ reply routing

TextMessage(text) == [type |-> "TextMessage", text |-> text]
FlexMessage(alt_text) == [type |-> "FlexMessage", text |-> alt_text]
QuickReplyMessage(text) == [type |-> "TextMessage+QuickReply", text |-> text]

\* what a handler did: the tables after it, the reply_message calls it
\* made, the LLM calls it made, the exception it let escape, its result
Effects(prefs, conv, replies, llm_calls, raised, ret) ==
    [prefs |-> prefs, conv |-> conv, replies |-> replies,
     llm_calls |-> llm_calls, raised |-> raised, ret |-> ret]

\* main.detect_and_update_language: the saved preference, None for a user
\* for whom get_user_language returns nothing
detect_and_update_language(prefs, user_id) ==
    LET current_lang == get_user_language(prefs, user_id)
    IN IF Truthy(current_lang) THEN current_lang ELSE None

C_lang == <<"/", "l", "a", "n", "g">>

\* main.handle_text_message
handle_text_message(prefs, conv, gs, t, user_id, text, group_id, llm, db) ==
    LET user_lang == detect_and_update_language(prefs, user_id)
        command   == Join(Lower(Strip(text)))
        parts     == Split(Strip(text))
        lang_code == Join(Lower(parts[2]))
        settings  == get_group_settings(gs, group_id)
        ai        == generate_response(prefs, conv, t, user_id, Join(text), llm, db)
        reply     == IF ai.raised # None
                     THEN get_message("help", user_lang)
                     ELSE ai.ret
    IN
    IF user_lang = None THEN
        Effects(prefs, conv,
                <<FlexMessage("Welcome to IMIGO! Please select your language.")>>,
                0, None, None)
    ELSE IF StartsWith(Lower(Strip(text)), C_lang) THEN
        IF Len(parts) = 2 /\ is_valid_language(lang_code) THEN
            LET is_new_user == user_lang = None
                message_text == IF is_new_user
                                THEN get_message("welcome", lang_code)
                                ELSE get_message("language_changed", lang_code)
            IN Effects(set_user_language(prefs, user_id, lang_code), conv,
                       <<TextMessage(message_text)>>, 0, None, None)
        ELSE
            Effects(prefs, conv,
                    <<QuickReplyMessage(get_message("language_select", user_lang))>>,
                    0, None, None)
    ELSE IF command = "/help" THEN
        Effects(prefs, conv,
                <<FlexMessage("IMIGO Help Menu - Select a category")>>, 0, None, None)
    ELSE IF command = "/emergency" THEN
        Effects(prefs, conv,
                <<FlexMessage("Emergency Contacts - Taiwan")>>, 0, None, None)
    ELSE IF command = "/clear" THEN
        Effects(prefs, clear_user_conversation(conv, user_id).conv,
                <<TextMessage(get_message("cleared", user_lang))>>, 0, None, None)
    ELSE IF group_id # None /\ settings.raised # None THEN
        \* get_group_settings is called outside any try block
        Effects(prefs, conv, <<>>, 0, settings.raised, None)
    ELSE IF group_id # None /\ settings.value # None
            /\ settings.value.translate_enabled THEN
        \* TranslationService has no translate_message: the call raises
        \* AttributeError, the except clause logs it, and the handler returns
        Effects(prefs, conv, <<>>, 0, None, None)
    ELSE
        Effects(prefs, ai.conv, <<TextMessage(reply)>>, ai.llm_calls, None, None)

C_lang_ == <<"l", "a", "n", "g", "_">>

\* the prompts dict of handle_postback
prompts == [d \in {"category_labor", "category_government", "category_daily",
                   "category_translate", "category_healthcare"} |->
               CASE d = "category_labor"      -> "I have a problem at work"
                 [] d = "category_government" -> "I need information about government services"
                 [] d = "category_daily"      -> "I need help with daily life"
                 [] d = "category_translate"  -> "I need translation help"
                 [] d = "category_healthcare" -> "I need healthcare information"]

\* main.handle_postback
handle_postback(prefs, conv, t, user_id, data, llm, db) ==
    LET stored    == get_user_language(prefs, user_id)
        user_lang == IF Truthy(stored) THEN stored ELSE DefaultLanguage
        name      == Join(data)
        lang_code == Join(SplitOn(data, "_", <<>>)[2])
        prompt    == IF name \in DOMAIN prompts
                     THEN prompts[name]
                     ELSE get_message("help", user_lang)
        ai        == generate_response(prefs, conv, t, user_id, prompt, llm, db)
        reply     == IF ai.raised # None
                     THEN get_message("help", user_lang)
                     ELSE ai.ret
    IN
    IF name = "clear_chat" THEN
        Effects(prefs, clear_user_conversation(conv, user_id).conv,
                <<TextMessage(get_message("cleared", user_lang))>>, 0, None, None)
    ELSE IF name = "category_emergency" THEN
        Effects(prefs, conv,
                <<FlexMessage("Emergency Contacts - Taiwan")>>, 0, None, None)
    ELSE IF name = "category_language" THEN
        Effects(prefs, conv,
                <<QuickReplyMessage(get_message("language_select", user_lang))>>,
                0, None, None)
    ELSE IF StartsWith(data, C_lang_) THEN
        IF is_valid_language(lang_code) THEN
            LET current_lang == get_user_language(prefs, user_id)
                is_new_user  == current_lang = None
                message_text == IF is_new_user
                                THEN get_message("welcome", lang_code)
                                ELSE get_message("language_changed", lang_code)
            IN Effects(set_user_language(prefs, user_id, lang_code), conv,
                       <<TextMessage(message_text)>>, 0, None, None)
        ELSE
            \* no else branch in the code: nothing is sent
            Effects(prefs, conv, <<>>, 0, None, None)
    ELSE
        Effects(prefs, ai.conv, <<TextMessage(reply)>>, ai.llm_calls, None, None)

C_location_ == <<"l", "o", "c", "a", "t", "i", "o", "n", "_">>

\* PostbackHandler.LOCATION_CATEGORIES: its keys, and the languages each
\* entry has a name in
LOCATION_CATEGORIES == {"location_food", "location_health", "location_community",
                        "location_emergency", "location_services"}
CategoryLanguages == {"id", "zh", "en"}

\* PostbackHandler._handle_location_query.  Without a location it asks for
\* one.  With a location it sends the "searching" text with _send_reply,
\* searches (find_nearby_places returns [] on any error), and sends the
\* result with a second _send_reply on the same reply token.
\* category_info[user_lang] raises KeyError for a language without a name.
handle_location_query(prefs, conv, user_lang, category, user_location) ==
    IF category \notin LOCATION_CATEGORIES THEN
        Effects(prefs, conv, <<>>, 0, None, FALSE)
    ELSE IF user_lang \notin CategoryLanguages THEN
        Effects(prefs, conv, <<>>, 0, "KeyError", None)
    ELSE IF user_location = None THEN
        Effects(prefs, conv,
                <<TextMessage("location_request@" \o
                              (IF user_lang \in {"id", "zh", "en"} THEN user_lang ELSE "id"))>>,
                0, None, TRUE)
    ELSE
        Effects(prefs, conv,
                <<TextMessage(get_message("location_searching", None)),
                  TextMessage("places@" \o user_lang)>>,
                0, None, TRUE)

\* PostbackHandler.handle_postback (services/postback_handler.py)
PostbackHandler_handle_postback(prefs, conv, user_id, postback_data, user_location) ==
    LET user_lang == get_user_language(prefs, user_id)
        name      == Join(postback_data)
    IN
    IF StartsWith(postback_data, C_location_) THEN
        handle_location_query(prefs, conv, user_lang, name, user_location)
    ELSE IF name = "change_language" THEN
        Effects(prefs, conv,
                <<QuickReplyMessage("choose@" \o
                      (IF user_lang \in {"id", "zh", "en"} THEN user_lang ELSE "id"))>>,
                0, None, TRUE)
    ELSE IF name = "clear_chat" THEN
        Effects(prefs, clear_user_conversation(conv, user_id).conv,
                <<TextMessage(get_message("cleared", None))>>, 0, None, TRUE)
    ELSE
        Effects(prefs, conv, <<>>, 0, None, FALSE)

\* LanguageDetectionService.detect_language: a LANGUAGE_MAP value that is
\* in its SUPPORTED_LANGUAGES, or its default language
DetectOutcomes == {"en", "zh", "id", "vi", "th", "fil"}

\* api.routes.chat.send_message: `language` is the request's field,
\* `detected` what detect_language answers when it is asked
send_message(prefs, conv, t, user_id, message, language, detected, llm, db) ==
    LET detected_language == IF ~Truthy(language) \/ language = "auto"
                             THEN detected
                             ELSE language
        current_lang == get_user_language(prefs, user_id)
        prefs2 == IF ~Truthy(current_lang) \/ current_lang # detected_language
                  THEN set_user_language(prefs, user_id, detected_language)
                  ELSE prefs
        ai == generate_response(prefs2, conv, t, user_id, message, llm, db)
    IN
    IF ai.raised # None
    THEN Effects(prefs2, ai.conv, <<>>, ai.llm_calls, "HTTPException", None)
    ELSE Effects(prefs2, ai.conv, <<>>, ai.llm_calls, None,
                 [response |-> ai.ret, language |-> detected_language])

\* force_link_menu.link_user_menu.  Its first test reads
\* rich_menu_service.SUPPORTED_LANGUAGES, an attribute class
\* RichMenuService does not define: the AttributeError is caught by the
\* except clause, which returns False before set_user_language is reached.
link_user_menu(prefs, conv, user_id, language) ==
    Effects(prefs, conv, <<>>, 0, None, FALSE)

\* ------------------------------------------------------------------ inputs

Users == {"U1", "U2"}      \* the users of store-level calls
BotUsers == {"U1"}         \* the users who talk to the bot
Groups == {"G1"}

T_hello        == <<"h", "e", "l", "l", "o">>
T_foo          == <<"/", "f", "o", "o">>
T_help         == <<"/", "h", "e", "l", "p">>
T_emergency    == <<"/", "e", "m", "e", "r", "g", "e", "n", "c", "y">>
T_clear        == <<"/", "c", "l", "e", "a", "r">>
T_lang         == <<"/", "l", "a", "n", "g">>
T_lang_id      == <<"/", "l", "a", "n", "g", " ", "i", "d">>
T_LANG_ZH      == <<" ", "/", "L", "A", "N", "G", " ", " ", "Z", "H", " ">>
T_lang_xx      == <<"/", "l", "a", "n", "g", " ", "x", "x">>
T_lang_id_zh   == <<"/", "l", "a", "n", "g", " ", "i", "d", " ", "z", "h">>
T_language     == <<"/", "l", "a", "n", "g", "u", "a", "g", "e">>

\* the message texts a webhook event may carry
Texts == {T_hello, T_foo, T_help, T_emergency, T_clear, T_lang, T_lang_id,
          T_LANG_ZH, T_lang_xx, T_lang_id_zh, T_language}

D_clear_chat         == <<"c", "l", "e", "a", "r", "_", "c", "h", "a", "t">>
D_category_emergency == <<"c", "a", "t", "e", "g", "o", "r", "y", "_",
                          "e", "m", "e", "r", "g", "e", "n", "c", "y">>
D_category_language  == <<"c", "a", "t", "e", "g", "o", "r", "y", "_",
                          "l", "a", "n", "g", "u", "a", "g", "e">>
D_category_labor     == <<"c", "a", "t", "e", "g", "o", "r", "y", "_",
                          "l", "a", "b", "o", "r">>
D_lang_en            == <<"l", "a", "n", "g", "_", "e", "n">>
D_lang_xx            == <<"l", "a", "n", "g", "_", "x", "x">>
D_lang_              == <<"l", "a", "n", "g", "_">>
D_other              == <<"o", "t", "h", "e", "r">>

\* the data a postback event may carry
PostbackData == {D_clear_chat, D_category_emergency, D_category_language,
                 D_category_labor, D_lang_en, D_lang_xx, D_lang_, D_other}

P_location_food == <<"l", "o", "c", "a", "t", "i", "o", "n", "_", "f", "o", "o", "d">>
P_location_xx == <<"l", "o", "c", "a", "t", "i", "o", "n", "_", "x", "x">>
P_change_language == <<"c", "h", "a", "n", "g", "e", "_", "l", "a", "n", "g", "u", "a", "g", "e">>

\* the data a rich-menu postback may carry to PostbackHandler
RichMenuData == {P_location_food, P_location_xx, P_change_language,
                 D_clear_chat, D_other}

\* the location a user has shared, None when there is none
UserLocations == {None, "here"}

\* the language field of a chat API request
RequestLanguages == {"auto", "vi", "xx"}

\* the languages detect_language answers in the runs of the model
DetectedInputs == {l \in DetectOutcomes : l \in {"id", "th"}}

\* the language argument of a force-link run
ForceLinkLanguages == {"en", "xx"}

\* the language argument of a store-level set_user_language call
LanguageInputs == SUPPORTED_LANGUAGES \cup {"xx", ""}

Roles == {"user", "assistant"}
Contents == {"a"}

\* ------------------------------------------------------------------- state

\* the stored row of a user, None when there is none
StoredLanguage(prefs, user_id) ==
    IF user_id \in DOMAIN prefs THEN prefs[user_id] ELSE None

\* the record of an operation: its name and input, what a store-level call
\* found stored before it (`before`), what it returned or raised, the
\* replies it sent, the LLM calls it made, how the LLM answered and how the
\* log writes after the answer went
Record(op, user_id, arg, before, ret, raised, replies, llm_calls, llm, db) ==
    [op |-> op, user_id |-> user_id, arg |-> arg, before |-> before,
     ret |-> ret, raised |-> raised, replies |-> replies,
     llm_calls |-> llm_calls, llm |-> llm, db |-> db]

\* the coroutines the event loop may run at once
Tasks == {1, 2}

\* a task: where it stands (pc), the call it runs (user_id, arg), the row
\* its SELECT found (pref), and the exception it ended with
Task(pc, user_id, arg, pref, error) ==
    [pc |-> pc, user_id |-> user_id, arg |-> arg, pref |-> pref, error |-> error]

Idle == Task("idle", None, None, None, None)

Init ==
    /\ user_preferences = [u \in {} |-> None]
    /\ conversations = <<>>
    /\ group_settings = [g \in {} |-> None]
    /\ now = 0
    /\ last = Record("init", None, None, None, None, None, <<>>, 0, None, None)
    /\ tasks = [t \in Tasks |-> Idle]
    /\ _db_service = None
    /\ databases = [d \in {} |-> None]
    /\ rich_menus = [m \in {} |-> None]
    /\ language_menus = [l \in {} |-> None]

\* a handler ran: the tables take its effects, `last` its record
Handled(op, user_id, arg, e, llm, db) ==
    /\ Len(e.conv) <= 2 * MaxExchanges
    /\ user_preferences' = e.prefs
    /\ conversations' = e.conv
    /\ last' = Record(op, user_id, arg, None,
                      e.ret, e.raised, e.replies, e.llm_calls,
                      IF e.llm_calls > 0 THEN llm ELSE None,
                      IF e.llm_calls > 0 /\ llm = "ok" THEN db ELSE None)
    /\ UNCHANGED <<group_settings, now, tasks, _db_service, databases, rich_menus, language_menus>>

\* ----------------------------------------------------------------- the bot

\* what a handler run can meet, as <<LLM outcome, log-write outcome>>: when
\* the handler reaches the LLM, a failed call or an answer followed by each
\* outcome of the writes; nothing to choose when it does not
Outcomes(reaches_llm) ==
    IF reaches_llm
    THEN {<<"fail", "ok">>} \cup {<<"ok", db>> : db \in WriteOutcomes}
    ELSE {<<"ok", "ok">>}

\* a webhook MessageEvent with text content
TextMessageEvent ==
    \E u \in BotUsers, text \in Texts, g \in Groups \cup {None} :
        \E o \in Outcomes(handle_text_message(user_preferences, conversations,
                              group_settings, now, u, text, g, "ok", "ok").llm_calls > 0) :
            Handled("handle_text_message", u, <<text, g>>,
                    handle_text_message(user_preferences, conversations,
                                        group_settings, now, u, text, g, o[1], o[2]),
                    o[1], o[2])

\* a webhook PostbackEvent
PostbackEvent ==
    \E u \in BotUsers, data \in PostbackData :
        \E o \in Outcomes(handle_postback(user_preferences, conversations,
                                          now, u, data, "ok", "ok").llm_calls > 0) :
            Handled("handle_postback", u, data,
                    handle_postback(user_preferences, conversations, now, u, data,
                                    o[1], o[2]),
                    o[1], o[2])

\* POST /api/chat/message.  detect_language is asked only when the request
\* names no language.
ChatMessageRequest ==
    \E u \in BotUsers, language \in RequestLanguages, o \in Outcomes(TRUE) :
        \E detected \in IF language = "auto" THEN DetectedInputs ELSE {None} :
            Handled("send_message", u, language,
                    send_message(user_preferences, conversations, now, u, "hello",
                                 language, detected, o[1], o[2]),
                    o[1], o[2])

\* python force_link_menu.py <user_id> <language>
ForceLinkMenu ==
    \E u \in BotUsers, language \in ForceLinkLanguages :
        Handled("link_user_menu", u, language,
                link_user_menu(user_preferences, conversations, u, language),
                None, None)

\* a rich-menu postback given to PostbackHandler.handle_postback
RichMenuPostback ==
    \E u \in BotUsers, data \in RichMenuData, loc \in UserLocations :
        Handled("PostbackHandler.handle_postback", u, <<data, loc>>,
                PostbackHandler_handle_postback(user_preferences, conversations,
                                                u, data, loc),
                None, None)

Next ==
    \/ TextMessageEvent
    \/ PostbackEvent
    \/ RichMenuPostback
    \/ ChatMessageRequest
    \/ ForceLinkMenu

Spec == Init /\ [][Next]_vars

\* ------------------------------------------------------------ the webhook

\* an event of a webhook body
Event(type, content, user_id, text, group_id) ==
    [type |-> type, content |-> content, user_id |-> user_id,
     text |-> text, group_id |-> group_id]

\* main.webhook's loop body with main.handle_message: a MessageEvent with
\* text goes to handle_text_message, a PostbackEvent to handle_postback,
\* anything else is logged
handle_event(prefs, conv, gs, t, event) ==
    IF event.type = "message" /\ event.content = "text" THEN
        handle_text_message(prefs, conv, gs, t, event.user_id, event.text,
                            event.group_id, "ok", "ok")
    ELSE IF event.type = "postback" THEN
        handle_postback(prefs, conv, t, event.user_id, event.text, "ok", "ok")
    ELSE Effects(prefs, conv, <<>>, 0, None, None)

\* what the loop did with one event
EventResult(e) == [raised |-> e.raised, replies |-> e.replies]

\* A loop whose try block encloses the for statement: the first exception
\* ends it.
RECURSIVE process_events_until_failure(_, _, _, _, _)
process_events_until_failure(prefs, conv, gs, t, events) ==
    IF events = <<>>
    THEN [prefs |-> prefs, conv |-> conv, results |-> <<>>]
    ELSE LET e    == handle_event(prefs, conv, gs, t, Head(events))
             rest == IF e.raised # None
                     THEN [prefs |-> e.prefs, conv |-> e.conv, results |-> <<>>]
                     ELSE process_events_until_failure(e.prefs, e.conv, gs, t,
                                                       Tail(events))
         IN [prefs   |-> rest.prefs, conv |-> rest.conv,
             results |-> <<EventResult(e)>> \o rest.results]

\* main.webhook, `for event in events`: each event in its own try block,
\* whose except clause logs the exception and goes on
RECURSIVE process_events_each(_, _, _, _, _)
process_events_each(prefs, conv, gs, t, events) ==
    IF events = <<>>
    THEN [prefs |-> prefs, conv |-> conv, results |-> <<>>]
    ELSE LET e    == handle_event(prefs, conv, gs, t, Head(events))
             rest == process_events_each(e.prefs, e.conv, gs, t, Tail(events))
         IN [prefs   |-> rest.prefs, conv |-> rest.conv,
             results |-> <<EventResult(e)>> \o rest.results]

process_events(prefs, conv, gs, t, events) ==
    process_events_each(prefs, conv, gs, t, events)

\* main.webhook: InvalidSignatureError from parser.parse becomes
\* HTTPException 400 before any event is looked at; otherwise the events
\* are processed and {"status": "ok"} is returned
webhook(prefs, conv, gs, t, signature_valid, events) ==
    IF ~signature_valid
    THEN [prefs |-> prefs, conv |-> conv, results |-> <<>>,
          response |-> "400 Invalid signature"]
    ELSE LET r == process_events(prefs, conv, gs, t, events) IN
         [prefs |-> r.prefs, conv |-> r.conv, results |-> r.results,
          response |-> "200 ok"]

E_group_hello == Event("message", "text", "U1", T_hello, "G1")
E_clear       == Event("message", "text", "U1", T_clear, None)
E_lang_en     == Event("postback", None, "U1", D_lang_en, None)
E_follow      == Event("follow", None, "U1", <<>>, None)

\* the events a webhook body may carry
WebhookEvents == {E_group_hello, E_clear, E_lang_en, E_follow}

MaxEvents == 2

\* the bodies: up to MaxEvents events
WebhookBodies ==
    UNION {[1..n -> WebhookEvents] : n \in 0..MaxEvents}

\* the bot is a member of a group with translation enabled; the user may
\* have chosen a language and may have a row in the log
InitWebhook ==
    /\ user_preferences \in {[u \in {} |-> None], [u \in {"U1"} |-> "id"]}
    /\ conversations \in {<<>>, <<[user_id |-> "U1", role |-> "user",
                                   content |-> "a", created_at |-> 0]>>}
    /\ group_settings = [g \in Groups |->
                            [translation_enabled |-> TRUE, target_language |-> "zh"]]
    /\ now = 0
    /\ last = Record("init", None, None, None, None, None, <<>>, 0, None, None)
    /\ tasks = [t \in Tasks |-> Idle]
    /\ _db_service = None
    /\ databases = [d \in {} |-> None]
    /\ rich_menus = [m \in {} |-> None]
    /\ language_menus = [l \in {} |-> None]

\* a POST /webhook request
Webhook ==
    \E signature_valid \in BOOLEAN, events \in WebhookBodies :
        LET r == webhook(user_preferences, conversations, group_settings, now,
                         signature_valid, events) IN
        /\ user_preferences' = r.prefs
        /\ conversations' = r.conv
        /\ last' = Record("webhook", None, <<signature_valid, events>>, None,
                          r.response, None, r.results, 0, None, None)
        /\ UNCHANGED <<group_settings, now, tasks, _db_service, databases, rich_menus, language_menus>>

NextWebhook == Webhook

SpecWebhook == InitWebhook /\ [][NextWebhook]_vars

\* ------------------------------------------------- the bot in a group

\* the target language of a group_settings row
TargetLanguages == {"zh"}

\* The database file already holds a group_settings row for every group
\* (columns translation_enabled and target_language of GroupSettings).
InitGroup ==
    /\ user_preferences = [u \in {} |-> None]
    /\ conversations = <<>>
    /\ \E enabled \in BOOLEAN, target \in TargetLanguages :
           group_settings = [g \in Groups |->
                                [translation_enabled |-> enabled,
                                 target_language     |-> target]]
    /\ now = 0
    /\ last = Record("init", None, None, None, None, None, <<>>, 0, None, None)
    /\ tasks = [t \in Tasks |-> Idle]
    /\ _db_service = None
    /\ databases = [d \in {} |-> None]
    /\ rich_menus = [m \in {} |-> None]
    /\ language_menus = [l \in {} |-> None]

SpecGroup == InitGroup /\ [][Next]_vars

\* -------------------------------------------------- the preference store

\* a call of DatabaseService.set_user_language
SetUserLanguage ==
    \E u \in Users, language \in LanguageInputs :
        /\ user_preferences' = set_user_language(user_preferences, u, language)
        /\ last' = Record("set_user_language", u, language,
                          StoredLanguage(user_preferences, u),
                          None, None, <<>>, 0, None, None)
        /\ UNCHANGED <<conversations, group_settings, now, tasks, _db_service, databases, rich_menus, language_menus>>

\* a call of DatabaseService.get_user_language
GetUserLanguage ==
    \E u \in Users :
        /\ last' = Record("get_user_language", u, None,
                          StoredLanguage(user_preferences, u),
                          get_user_language(user_preferences, u),
                          None, <<>>, 0, None, None)
        /\ UNCHANGED <<user_preferences, conversations, group_settings, now, tasks, _db_service, databases, rich_menus, language_menus>>

NextPrefs == SetUserLanguage \/ GetUserLanguage

SpecPrefs == Init /\ [][NextPrefs]_vars

\* --------------------------------------------------- the conversation log

\* a call of DatabaseService.save_message
SaveMessage ==
    \E u \in Users, role \in Roles, content \in Contents :
        /\ Len(conversations) < MaxLog
        /\ conversations' = save_message(conversations, now, u, role, content)
        /\ last' = Record("save_message", u, None, None,
                          None, None, <<>>, 0, None, None)
        /\ UNCHANGED <<user_preferences, group_settings, now, tasks, _db_service, databases, rich_menus, language_menus>>

\* a call of DatabaseService.get_conversation_history
GetConversationHistory ==
    \E u \in Users, limit \in 1..MaxLog :
        \E history \in get_conversation_history(conversations, u, limit) :
            /\ last' = Record("get_conversation_history", u, limit, None,
                              history, None, <<>>, 0, None, None)
            /\ UNCHANGED <<user_preferences, conversations, group_settings, now, tasks, _db_service, databases, rich_menus, language_menus>>

\* a call of DatabaseService.clear_user_conversation
ClearUserConversation ==
    \E u \in Users :
        /\ conversations' = clear_user_conversation(conversations, u).conv
        /\ last' = Record("clear_user_conversation", u, None, None,
                          clear_user_conversation(conversations, u).count,
                          None, <<>>, 0, None, None)
        /\ UNCHANGED <<user_preferences, group_settings, now, tasks, _db_service, databases, rich_menus, language_menus>>

\* a second passes on the database clock
Tick ==
    /\ now < MaxClock
    /\ now' = now + 1
    /\ last' = Record("tick", None, None, None, None, None, <<>>, 0, None, None)
    /\ UNCHANGED <<user_preferences, conversations, group_settings, tasks, _db_service, databases, rich_menus, language_menus>>

NextLog == SaveMessage \/ GetConversationHistory \/ ClearUserConversation \/ Tick

SpecLog == Init /\ [][NextLog]_vars

\* ---------------------------------------------------- the retention sweep

\* the database clock when the sweep is looked at: three days after 0
StartClock == 3 * SecondsPerDay

\* created_at of the rows already stored: two days, one day and 23 hours
\* before StartClock
StoredTimes == {StartClock - 2 * SecondsPerDay,
                StartClock - SecondsPerDay,
                StartClock - 23 * 3600}

MaxStored == 2

\* the days_old argument
DaysOld == {1, 2}

\* the host's local time zone, in seconds ahead of UTC: UTC, Asia/Taipei
UtcOffsets == {0, 8 * 3600}

\* the database file holds rows saved on earlier days, in the order they
\* were saved, a preference and a group's settings
InitCleanup ==
    /\ user_preferences = [u \in {"U1"} |-> "id"]
    /\ \E n \in 0..MaxStored :
           \E us \in [1..n -> Users], ts \in [1..n -> StoredTimes] :
               /\ \A i, j \in 1..n : i < j => ts[i] <= ts[j]
               /\ conversations = [i \in 1..n |->
                                      [user_id |-> us[i], role |-> "user",
                                       content |-> "a", created_at |-> ts[i]]]
    /\ group_settings = [g \in Groups |->
                            [translation_enabled |-> TRUE, target_language |-> "zh"]]
    /\ now = StartClock
    /\ last = Record("init", None, None, None, None, None, <<>>, 0, None, None)
    /\ tasks = [t \in Tasks |-> Idle]
    /\ _db_service = None
    /\ databases = [d \in {} |-> None]
    /\ rich_menus = [m \in {} |-> None]
    /\ language_menus = [l \in {} |-> None]

\* a call of DatabaseService.cleanup_old_conversations on a host of some
\* time zone
CleanupOldConversations ==
    \E days_old \in DaysOld, utc_offset \in UtcOffsets :
        LET r == cleanup_old_conversations(conversations, now, utc_offset, days_old) IN
        /\ conversations' = r.conv
        /\ last' = Record("cleanup_old_conversations", None, <<days_old, utc_offset>>,
                          None, r.count, None, <<>>, 0, None, None)
        /\ UNCHANGED <<user_preferences, group_settings, now, tasks, _db_service, databases, rich_menus, language_menus>>

NextCleanup == CleanupOldConversations \/ SaveMessage

SpecCleanup == InitCleanup /\ [][NextCleanup]_vars

\* ------------------------------------------------------- group handler

C_translate == <<"/", "t", "r", "a", "n", "s", "l", "a", "t", "e">>
C_on        == <<"o", "n">>
C_off       == <<"o", "f", "f">>

\* the characters \w of a regular expression matches
WordChars == (Chars \ {"/", " "})

\* the longest run of word characters at the start of s
RECURSIVE WordPrefix(_)
WordPrefix(s) ==
    IF s # <<>> /\ Head(s) \in WordChars
    THEN <<Head(s)>> \o WordPrefix(Tail(s))
    ELSE <<>>

\* re.match(r"/translate\s+(on|off)(?:\s+(\w+))?", s): whether it matches at
\* the start of s, and its groups 1 and 2 (None for the optional group
\* that took no part in the match)
translate_match(s) ==
    LET rest    == SubSeq(s, Len(C_translate) + 1, Len(s))
        after   == LStrip(rest)
        action  == IF StartsWith(after, C_on) THEN C_on
                   ELSE IF StartsWith(after, C_off) THEN C_off
                   ELSE <<>>
        tail    == SubSeq(after, Len(action) + 1, Len(after))
        word    == WordPrefix(LStrip(tail))
    IN IF /\ StartsWith(s, C_translate)
          /\ Len(after) < Len(rest)
          /\ action # <<>>
       THEN [matched  |-> TRUE,
             action   |-> Join(action),
             language |-> IF Len(LStrip(tail)) < Len(tail) /\ word # <<>>
                          THEN Join(word) ELSE None]
       ELSE [matched |-> FALSE, action |-> None, language |-> None]

\* the language codes _handle_translate_command accepts
TranslateLanguages == {"id", "zh", "en"}

R_usage   == "Usage: /translate on <language> | /translate off"
R_specify == "Please specify target language"
R_invalid == "Invalid language"

\* what the group handler did: the group settings after it, the replies it
\* sent, the exception that left it, and its return value
GroupEffects(gs, replies, raised, ret) ==
    [gs |-> gs, replies |-> replies, raised |-> raised, ret |-> ret]

\* GroupHandler._check_if_admin: True for every sender
_check_if_admin(is_member_admin) == TRUE

\* GroupHandler._handle_translate_command.  DatabaseService has no method
\* set_group_translation: both calls of it raise AttributeError, which
\* nothing in the handler catches.
_handle_translate_command(gs, group_id, user_id, text, is_member_admin) ==
    LET is_admin == _check_if_admin(is_member_admin)
        match    == translate_match(Lower(text))
    IN
    IF ~is_admin THEN
        GroupEffects(gs, <<TextMessage(get_message("admin_only", None))>>, None, TRUE)
    ELSE IF ~match.matched THEN
        GroupEffects(gs, <<TextMessage(R_usage)>>, None, TRUE)
    ELSE IF match.action = "on" THEN
        IF ~Truthy(match.language) THEN
            GroupEffects(gs, <<TextMessage(R_specify)>>, None, TRUE)
        ELSE IF match.language \notin TranslateLanguages THEN
            GroupEffects(gs, <<TextMessage(R_invalid)>>, None, TRUE)
        ELSE GroupEffects(gs, <<>>, "AttributeError", None)
    ELSE GroupEffects(gs, <<>>, "AttributeError", None)

\* GroupHandler.handle_group_message
handle_group_message(gs, group_id, user_id, text, is_member_admin) ==
    LET settings == get_group_settings(gs, group_id) IN
    IF StartsWith(text, C_translate) THEN
        _handle_translate_command(gs, group_id, user_id, text, is_member_admin)
    ELSE IF settings.raised # None THEN
        GroupEffects(gs, <<>>, settings.raised, None)
    ELSE
        \* no settings: the message is not handled
        GroupEffects(gs, <<>>, None, FALSE)

\* ------------------------------------------------- the group settings

GroupIds == {"G1", "G2"}

T_translate        == C_translate
T_translate_on     == C_translate \o <<" ">> \o C_on
T_translate_on_id  == C_translate \o <<" ">> \o C_on \o <<" ", "i", "d">>
T_translate_on_xx  == C_translate \o <<" ">> \o C_on \o <<" ", "x", "x">>
T_translate_off    == C_translate \o <<" ">> \o C_off
T_TRANSLATE_On_ZH  == C_translate \o <<" ", " ", "O", "n", " ", "Z", "H">>

\* the texts of the messages sent in a group
GroupTexts == {T_hello, T_translate, T_translate_on, T_translate_on_id,
               T_translate_on_xx, T_translate_off, T_TRANSLATE_On_ZH}

\* a text message sent in a group by a member who is, or is not, one of
\* its admins
GroupMessage ==
    \E g \in GroupIds, u \in Users, text \in GroupTexts, admin \in BOOLEAN :
        LET e == handle_group_message(group_settings, g, u, text, admin) IN
        /\ group_settings' = e.gs
        /\ last' = Record("handle_group_message", u, <<g, text, admin>>,
                          group_settings, e.ret, e.raised, e.replies, 0, None, None)
        /\ UNCHANGED <<user_preferences, conversations, now, tasks, _db_service, databases, rich_menus, language_menus>>

\* the target_language argument of enable_group_translation
GroupTargets == {"id", "xx"}

\* the database file holds no group_settings row, or the rows of InitGroup
InitGroupStore == Init \/ InitGroup

\* a call of DatabaseService.enable_group_translation
EnableGroupTranslation ==
    \E g \in GroupIds, target \in GroupTargets, by \in Users :
        LET r == enable_group_translation(group_settings, g, target, by) IN
        /\ group_settings' = r.gs
        /\ last' = Record("enable_group_translation", by, <<g, target>>,
                          group_settings, None, r.raised, <<>>, 0, None, None)
        /\ UNCHANGED <<user_preferences, conversations, now, tasks, _db_service, databases, rich_menus, language_menus>>

\* a call of DatabaseService.disable_group_translation
DisableGroupTranslation ==
    \E g \in GroupIds :
        LET r == disable_group_translation(group_settings, g) IN
        /\ group_settings' = r.gs
        /\ last' = Record("disable_group_translation", None, <<g>>,
                          group_settings, None, r.raised, <<>>, 0, None, None)
        /\ UNCHANGED <<user_preferences, conversations, now, tasks, _db_service, databases, rich_menus, language_menus>>

\* a call of DatabaseService.get_group_settings
GetGroupSettings ==
    \E g \in GroupIds :
        LET r == get_group_settings(group_settings, g) IN
        /\ last' = Record("get_group_settings", None, <<g>>,
                          None, r.value, r.raised, <<>>, 0, None, None)
        /\ UNCHANGED <<user_preferences, conversations, group_settings, now, tasks, _db_service, databases, rich_menus, language_menus>>

NextGroupStore ==
    \/ EnableGroupTranslation
    \/ DisableGroupTranslation
    \/ GetGroupSettings
    \/ GroupMessage

SpecGroupStore == InitGroupStore /\ [][NextGroupStore]_vars

\* -------------------------------------------- the store of several users

\* the language argument of a set_user_language call between other writes
StoreLanguages == {"id", "zh"}

\* a call of DatabaseService.set_user_language
StoreSetUserLanguage ==
    \E u \in Users, language \in StoreLanguages :
        /\ user_preferences' = set_user_language(user_preferences, u, language)
        /\ last' = Record("set_user_language", u, language,
                          StoredLanguage(user_preferences, u),
                          None, None, <<>>, 0, None, None)
        /\ UNCHANGED <<conversations, group_settings, now, tasks, _db_service, databases, rich_menus, language_menus>>

\* the writes of DatabaseService that name a user, in any order
NextStore == StoreSetUserLanguage \/ SaveMessage \/ ClearUserConversation

SpecStore == Init /\ [][NextStore]_vars

\* ------------------------------------- concurrent set_user_language calls

\* The event loop runs a coroutine up to its next await.  set_user_language
\* awaits the SELECT of the user's row, then leaves `async with s.begin()`,
\* which flushes the UPDATE of the row it found or the INSERT of a new row
\* and commits.

UpsertLanguages == {"id", "zh"}

\* the call starts and its SELECT returns the row, or None
SelectPreference(t) ==
    \E u \in Users, language \in UpsertLanguages :
        /\ tasks[t].pc = "idle"
        /\ tasks' = [tasks EXCEPT ![t] =
               Task("selected", u, language, StoredLanguage(user_preferences, u), None)]
        /\ UNCHANGED <<user_preferences, conversations, group_settings, now, last, _db_service, databases, rich_menus, language_menus>>

\* the flush at commit.  pref was found: UPDATE of the row.  pref was
\* None: INSERT, which the primary key user_id of UserPreferences rejects
\* with IntegrityError when a row of the user has been committed meanwhile.
CommitPreference(t) ==
    LET c == tasks[t] IN
    /\ c.pc = "selected"
    /\ IF c.pref = None /\ c.user_id \in DOMAIN user_preferences
       THEN /\ tasks' = [tasks EXCEPT ![t] =
                   Task("done", c.user_id, c.arg, c.pref, "IntegrityError")]
            /\ UNCHANGED user_preferences
       ELSE /\ tasks' = [tasks EXCEPT ![t] =
                   Task("done", c.user_id, c.arg, c.pref, None)]
            /\ user_preferences' = set_user_language(user_preferences, c.user_id, c.arg)
    /\ UNCHANGED <<conversations, group_settings, now, last, _db_service, databases, rich_menus, language_menus>>

\* the caller takes the result; the task is free for the next call
Return(t) ==
    /\ tasks[t].pc = "done"
    /\ tasks' = [tasks EXCEPT ![t] = Idle]
    /\ UNCHANGED <<user_preferences, conversations, group_settings, now, last, _db_service, databases, rich_menus, language_menus>>

NextUpsert ==
    \E t \in Tasks : SelectPreference(t) \/ CommitPreference(t) \/ Return(t)

SpecUpsert == Init /\ [][NextUpsert]_vars

\* ------------------------------------------------------------ rich menus

\* supported_languages of create_language_rich_menus, in loop order
supported_languages == <<"en", "id", "vi", "zh">>

\* language_names (the names of vi and zh are written in ASCII here)
language_names == [l \in {"en", "id", "vi", "zh"} |->
                      CASE l = "en" -> "English Menu"
                        [] l = "id" -> "Menu Bahasa Indonesia"
                        [] l = "vi" -> "Thuc don Tieng Viet"
                        [] l = "zh" -> "zh menu"]

\* what the loop body can meet for a language without a menu: no image
\* file; create_rich_menu_for_language returns None; the image is
\* uploaded; the upload fails and delete_rich_menu succeeds, or fails too
MenuOutcomes == {"no_image", "create_fails", "uploaded",
                 "upload_fails", "upload_fails_delete_fails"}

\* the id the platform gives a menu created for a language
NewRichMenuId(lang) == "richmenu-" \o lang

\* existing_menu_map: name -> rich_menu_id of the menus listed
existing_menu_map(menus) ==
    [name \in {menus[m].name : m \in DOMAIN menus} |->
        CHOOSE m \in DOMAIN menus : menus[m].name = name]

\* dict assignment d[k] = v
SetItem(d, k, v) == [x \in DOMAIN d \cup {k} |-> IF x = k THEN v ELSE d[x]]

\* A loop body that registers the new menu before it uploads the image.
menu_for_language_registered_early(menus, registered, existing, lang, outcome) ==
    LET menu_name    == language_names[lang]
        rich_menu_id == NewRichMenuId(lang)
        created      == SetItem(menus, rich_menu_id,
                                [name |-> menu_name, image |-> FALSE])
    IN
    IF menu_name \in DOMAIN existing THEN
        [menus |-> menus, registered |-> SetItem(registered, lang, existing[menu_name]),
         delete_failed |-> <<>>]
    ELSE IF outcome \in {"no_image", "create_fails"} THEN
        [menus |-> menus, registered |-> registered, delete_failed |-> <<>>]
    ELSE IF outcome = "uploaded" THEN
        [menus |-> SetItem(menus, rich_menu_id, [name |-> menu_name, image |-> TRUE]),
         registered |-> SetItem(registered, lang, rich_menu_id),
         delete_failed |-> <<>>]
    ELSE IF outcome = "upload_fails" THEN
        [menus |-> menus, registered |-> SetItem(registered, lang, rich_menu_id),
         delete_failed |-> <<>>]
    ELSE
        [menus |-> created, registered |-> SetItem(registered, lang, rich_menu_id),
         delete_failed |-> <<lang>>]

\* the body of the loop of create_language_rich_menus for one language
menu_for_language(menus, registered, existing, lang, outcome) ==
    LET menu_name    == language_names[lang]
        rich_menu_id == NewRichMenuId(lang)
        created      == SetItem(menus, rich_menu_id,
                                [name |-> menu_name, image |-> FALSE])
    IN
    IF menu_name \in DOMAIN existing THEN
        \* reuse the menu of that name
        [menus |-> menus, registered |-> SetItem(registered, lang, existing[menu_name]),
         delete_failed |-> <<>>]
    ELSE IF outcome \in {"no_image", "create_fails"} THEN
        [menus |-> menus, registered |-> registered, delete_failed |-> <<>>]
    ELSE IF outcome = "uploaded" THEN
        [menus |-> SetItem(menus, rich_menu_id, [name |-> menu_name, image |-> TRUE]),
         registered |-> SetItem(registered, lang, rich_menu_id),
         delete_failed |-> <<>>]
    ELSE IF outcome = "upload_fails" THEN
        \* delete_rich_menu returns True
        [menus |-> menus, registered |-> registered, delete_failed |-> <<>>]
    ELSE
        \* delete_rich_menu returns False, which the loop does not look at
        [menus |-> created, registered |-> registered, delete_failed |-> <<lang>>]

\* RichMenuService.create_language_rich_menus from language i on;
\* get_rich_menu_list is taken to answer
RECURSIVE create_language_rich_menus_from(_, _, _, _, _)
create_language_rich_menus_from(menus, registered, existing, outcomes, i) ==
    IF i > Len(supported_languages)
    THEN [menus |-> menus, registered |-> registered, delete_failed |-> <<>>]
    ELSE LET r    == menu_for_language(menus, registered, existing,
                                       supported_languages[i], outcomes[i])
             rest == create_language_rich_menus_from(r.menus, r.registered,
                                                     existing, outcomes, i + 1)
         IN [menus |-> rest.menus, registered |-> rest.registered,
             delete_failed |-> r.delete_failed \o rest.delete_failed]

\* RichMenuService.create_language_rich_menus
create_language_rich_menus(menus, registered, outcomes) ==
    create_language_rich_menus_from(menus, registered, existing_menu_map(menus),
                                    outcomes, 1)

\* a call of RichMenuService.create_language_rich_menus
CreateLanguageRichMenus ==
    \E outcomes \in [1..Len(supported_languages) -> MenuOutcomes] :
        LET r == create_language_rich_menus(rich_menus, language_menus, outcomes) IN
        /\ rich_menus' = r.menus
        /\ language_menus' = r.registered
        /\ last' = Record("create_language_rich_menus", None, r.delete_failed,
                          None, None, None, <<>>, 0, None, None)
        /\ UNCHANGED <<user_preferences, conversations, group_settings, now, tasks,
                       _db_service, databases>>

\* the process starts again: RichMenuService.__init__ with an empty
\* language_menus, the platform keeps its menus
NewRichMenuService ==
    /\ language_menus' = [l \in {} |-> None]
    /\ last' = Record("RichMenuService", None, None, None, None, None, <<>>, 0,
                      None, None)
    /\ UNCHANGED <<user_preferences, conversations, group_settings, now, tasks,
                   _db_service, databases, rich_menus>>

NextMenus == CreateLanguageRichMenus \/ NewRichMenuService

SpecMenus == Init /\ [][NextMenus]_vars

\* ------------------------------------- concurrent get_database_service calls

\* the coroutines that ask for the database service
Callers == {1, 2, 3}

\* the names of the objects DatabaseService(...) can make
DatabaseObjects == {"db1", "db2"}

\* a caller: where it stands, the object it holds or was given, whether
\* init_db had completed on that object when it was given, the exception
Caller(pc, instance, initialized, error) ==
    [pc |-> pc, instance |-> instance, initialized |-> initialized, error |-> error]

InitDeps ==
    /\ user_preferences = [u \in {} |-> None]
    /\ conversations = <<>>
    /\ group_settings = [g \in {} |-> None]
    /\ now = 0
    /\ last = Record("init", None, None, None, None, None, <<>>, 0, None, None)
    /\ tasks = [t \in Callers |-> Caller("idle", None, FALSE, None)]
    /\ _db_service = None
    /\ databases = [d \in {} |-> None]
    /\ rich_menus = [m \in {} |-> None]
    /\ language_menus = [l \in {} |-> None]

\* get_database_service up to its first await: with _db_service None it
\* makes the DatabaseService, assigns it to the global and starts init_db;
\* otherwise it returns the global at once
GetDatabaseService(t) ==
    /\ tasks[t].pc = "idle"
    /\ IF _db_service = None
       THEN \E d \in DatabaseObjects \ DOMAIN databases :
                /\ databases' = [x \in DOMAIN databases \cup {d} |->
                                    IF x = d
                                    THEN [init_db_calls |-> 1, ready |-> FALSE]
                                    ELSE databases[x]]
                /\ _db_service' = d
                /\ tasks' = [tasks EXCEPT ![t] = Caller("init_db", d, FALSE, None)]
       ELSE /\ tasks' = [tasks EXCEPT ![t] =
                            Caller("returned", _db_service,
                                   databases[_db_service].ready, None)]
            /\ UNCHANGED <<_db_service, databases>>
    /\ UNCHANGED <<user_preferences, conversations, group_settings, now, last,
                   rich_menus, language_menus>>

\* init_db completes: the tables exist, the caller logs and returns the
\* global
InitDbCompletes(t) ==
    LET c == tasks[t] IN
    /\ c.pc = "init_db"
    /\ databases' = [databases EXCEPT ![c.instance].ready = TRUE]
    /\ tasks' = [tasks EXCEPT ![t] = Caller("returned", _db_service, TRUE, None)]
    /\ UNCHANGED <<user_preferences, conversations, group_settings, now, last,
                   _db_service, rich_menus, language_menus>>

\* init_db raises (the database cannot be opened): the exception leaves
\* get_database_service, the global keeps the object
InitDbFails(t) ==
    LET c == tasks[t] IN
    /\ c.pc = "init_db"
    /\ tasks' = [tasks EXCEPT ![t] = Caller("raised", None, FALSE, "OperationalError")]
    /\ UNCHANGED <<user_preferences, conversations, group_settings, now, last,
                   _db_service, databases, rich_menus, language_menus>>

\* the caller is done with the call and may call again
CallerGoesOn(t) ==
    /\ tasks[t].pc \in {"returned", "raised"}
    /\ tasks' = [tasks EXCEPT ![t] = Caller("idle", None, FALSE, None)]
    /\ UNCHANGED <<user_preferences, conversations, group_settings, now, last,
                   _db_service, databases, rich_menus, language_menus>>

NextDeps ==
    \E t \in Callers :
        \/ GetDatabaseService(t)
        \/ InitDbCompletes(t)
        \/ InitDbFails(t)
        \/ CallerGoesOn(t)

SpecDeps == InitDeps /\ [][NextDeps]_vars

\* --------------------------------------- concurrent generate_response calls

\* generate_response awaits get_user_language and get_conversation_history,
\* calls the LLM (a synchronous call: no other coroutine runs during it),
\* then awaits save_message for the user row and save_message for the
\* assistant row.

ExchangeMessages == {"m1", "m2"}

\* the call starts and reads the language and the history
StartExchange(t) ==
    \E u \in Users, message \in ExchangeMessages :
        /\ tasks[t].pc = "idle"
        /\ tasks' = [tasks EXCEPT ![t] = Task("reading", u, message, None, None)]
        /\ UNCHANGED <<user_preferences, conversations, group_settings, now, last, _db_service, databases, rich_menus, language_menus>>

\* the LLM answers and the user row is saved
SaveUserMessage(t) ==
    LET c == tasks[t] IN
    /\ c.pc = "reading"
    /\ conversations' = save_message(conversations, now, c.user_id, "user", c.arg)
    /\ tasks' = [tasks EXCEPT ![t] = Task("user_saved", c.user_id, c.arg, None, None)]
    /\ UNCHANGED <<user_preferences, group_settings, now, last, _db_service, databases, rich_menus, language_menus>>

\* the LLM call raises: the except clause returns the error sentence
LLMFails(t) ==
    LET c == tasks[t] IN
    /\ c.pc = "reading"
    /\ tasks' = [tasks EXCEPT ![t] = Task("done", c.user_id, c.arg, None, "UpstreamError")]
    /\ UNCHANGED <<user_preferences, conversations, group_settings, now, last, _db_service, databases, rich_menus, language_menus>>

\* the assistant row is saved and the answer returned
SaveAssistantMessage(t) ==
    LET c == tasks[t] IN
    /\ c.pc = "user_saved"
    /\ conversations' = save_message(conversations, now, c.user_id, "assistant", LLMReply)
    /\ tasks' = [tasks EXCEPT ![t] = Task("done", c.user_id, c.arg, None, None)]
    /\ UNCHANGED <<user_preferences, group_settings, now, last, _db_service, databases, rich_menus, language_menus>>

NextExchanges ==
    \E t \in Tasks :
        \/ StartExchange(t)
        \/ SaveUserMessage(t)
        \/ LLMFails(t)
        \/ SaveAssistantMessage(t)

SpecExchanges == Init /\ [][NextExchanges]_vars

\* ------------------------------------------------------------------ claims

\* text that is no command: after trimming it does not start with "/"
IsFreeText(text) == ~StartsWith(Strip(text), <<"/">>)

NewUserPrompt == <<FlexMessage("Welcome to IMIGO! Please select your language.")>>

\* C1: when a user with no stored preference sends a free-text message,
\* handle_text_message makes no LLM call, replies with the language-selection
\* prompt, and leaves the user's conversation log as it was (empty).
C1_NewUserFreeTextNeverReachesLLM ==
    [][\A u \in BotUsers :
          (/\ u \notin DOMAIN user_preferences
           /\ last'.op = "handle_text_message"
           /\ last'.user_id = u
           /\ IsFreeText(last'.arg[1]))
          => (/\ last'.llm_calls = 0
              /\ last'.replies = NewUserPrompt
              /\ RowsOf(conversations', u) = RowsOf(conversations, u))]_vars

\* C2: get_user_language returns None for a user who has no preference row
\* (set_user_language was never called for the user), and a language code
\* only for a user who has one.
C2_GetReturnsNoneBeforeAnySet ==
    last.op = "get_user_language"
    => (last.ret = None <=> last.user_id \notin DOMAIN user_preferences)

\* C3: right after set_user_language(u, c) with a supported code c,
\* get_user_language(u) is c, whether u had no row or another language.
C3_SetThenGetReturnsCode ==
    (last.op = "set_user_language" /\ last.arg \in SUPPORTED_LANGUAGES)
    => get_user_language(user_preferences, last.user_id) = last.arg

\* C3 witness: a supported code has overwritten a different stored code.
C3_Witness ==
    /\ last.op = "set_user_language"
    /\ last.arg \in SUPPORTED_LANGUAGES
    /\ last.before \in SUPPORTED_LANGUAGES
    /\ last.before # last.arg
    /\ user_preferences[last.user_id] = last.arg

\* C4: set_user_language with a code outside the supported set fails with
\* InvalidLanguage and leaves the stored preference as it was.
C4_UnsupportedCodeRejected ==
    (last.op = "set_user_language" /\ last.arg \notin SUPPORTED_LANGUAGES)
    => (/\ last.raised = "InvalidLanguage"
        /\ StoredLanguage(user_preferences, last.user_id) = last.before)

\* C5: every language stored in a preference row is a supported language.
C5_StoredLanguagesSupported ==
    \A u \in DOMAIN user_preferences :
        user_preferences[u] \in SUPPORTED_LANGUAGES

\* the last k rows of a user in insertion order, as history entries
RecentWindow(conv, user_id, k) ==
    LET rows == RowsOf(conv, user_id)
        n == Len(rows)
        m == Min(k, n)
    IN [i \in 1..m |-> AsDict(rows[n - m + i])]

\* C6: get_conversation_history(u, K) returns min(K, n) entries: the K most
\* recently appended rows of u, oldest first.
C6_HistoryIsRecentSuffix ==
    last.op = "get_conversation_history"
    => last.ret = RecentWindow(conversations, last.user_id, last.arg)

\* C7: clear_user_conversation(u) returns the number of u's rows and deletes
\* them all, so every later history read of u is empty; on a user without
\* rows it returns 0 and changes nothing.
C7_ClearReturnsCountAndEmpties ==
    [][\A u \in Users :
          (last'.op = "clear_user_conversation" /\ last'.user_id = u)
          => (/\ last'.ret = Len(RowsOf(conversations, u))
              /\ RowsOf(conversations', u) = <<>>
              /\ \A k \in 1..MaxLog :
                     get_conversation_history(conversations', u, k) = {<<>>}
              /\ \A v \in Users \ {u} :
                     RowsOf(conversations', v) = RowsOf(conversations, v)
              /\ (RowsOf(conversations, u) = <<>>
                  => (last'.ret = 0 /\ conversations' = conversations)))]_vars

\* C7 witness: a clear has deleted two rows of one user and left the rows
\* of the other user in the table.
C7_Witness ==
    /\ last.op = "clear_user_conversation"
    /\ last.ret = 2
    /\ conversations # <<>>
    /\ RowsOf(conversations, last.user_id) = <<>>

\* C8: "/lang id" from a user with no stored preference stores "id" and is
\* answered with the Indonesian welcome message; "/lang id" from the same
\* user afterwards is answered with the language_changed confirmation.
C8_FirstLangCommandWelcomes ==
    [][\A u \in BotUsers :
          (/\ last'.op = "handle_text_message"
           /\ last'.user_id = u
           /\ last'.arg[1] = T_lang_id)
          => (/\ StoredLanguage(user_preferences', u) = "id"
              /\ u \notin DOMAIN user_preferences
                 => last'.replies = <<TextMessage(get_message("welcome", "id"))>>
              /\ StoredLanguage(user_preferences, u) = "id"
                 => last'.replies =
                        <<TextMessage(get_message("language_changed", "id"))>>)]_vars

\* C9: when the LLM call fails during a free-text message of a user with a
\* language set, the reply is the help text in that language and no
\* exception leaves the handler.
C9_LLMFailureRepliesHelp ==
    (/\ last.op = "handle_text_message"
     /\ IsFreeText(last.arg[1])
     /\ last.llm = "fail"
     /\ last.user_id \in DOMAIN user_preferences)
    => (/\ last.raised = None
        /\ last.replies =
               <<TextMessage(get_message("help",
                     get_user_language(user_preferences, last.user_id)))>>)

\* C10: every text-message or postback event that was handled has been
\* answered with a reply.
C10_EveryEventIsAnswered ==
    last.op \in {"handle_text_message", "handle_postback"}
    => Len(last.replies) >= 1

\* C11: no handler sends more than one reply on the reply token of the
\* event it handles.
C11_AtMostOneReplyPerEvent ==
    last.op \in {"handle_text_message", "handle_postback",
                 "PostbackHandler.handle_postback"}
    => Len(last.replies) <= 1

\* the command names the bot is said to know
KnownCommands == {"/lang", "/clear", "/help", "/emergency", "/translate"}

\* text that starts with "/" and whose first word is no known command
IsUnknownCommand(text) ==
    /\ StartsWith(Strip(text), <<"/">>)
    /\ Join(Lower(Split(Strip(text))[1])) \notin KnownCommands

\* C12: a text message that starts with "/" and is no known command makes
\* no LLM call, is answered with one reply, and leaves the conversation log
\* as it was.
C12_UnknownCommandNeverReachesLLM ==
    [][(/\ last'.op = "handle_text_message"
        /\ IsUnknownCommand(last'.arg[1]))
       => (/\ last'.llm_calls = 0
           /\ Len(last'.replies) = 1
           /\ conversations' = conversations)]_vars

\* a message of a member in a group whose row has translation enabled
InTranslatingGroup(gs, arg) ==
    /\ arg[2] \in DOMAIN gs
    /\ gs[arg[2]].translation_enabled

\* the bilingual reply format_translation_message is to build
FormattedTranslation(text, target) ==
    TextMessage("translation:" \o Join(text) \o "->" \o target)

Words(text) == [i \in 1..Len(Split(Strip(text))) |->
                   Join(Lower(Split(Strip(text))[i]))]

\* "/lang <c>" with a supported code c
IsLanguageCommand(text) ==
    /\ Len(Words(text)) = 2
    /\ Words(text)[1] = "/lang"
    /\ Words(text)[2] \in SUPPORTED_LANGUAGES

\* "/lang" alone, with an unsupported code, or with extra arguments
IsLanguageMenuRequest(text) ==
    /\ Len(Words(text)) >= 1
    /\ Words(text)[1] = "/lang"
    /\ ~IsLanguageCommand(text)

IsExplicitLanguageChoice(r) ==
    \/ r.op = "handle_text_message" /\ IsLanguageCommand(r.arg[1])
    \/ r.op = "handle_postback" /\ StartsWith(r.arg, C_lang_)

\* C16: a stored language is never deleted, and it changes only in a step
\* that is an explicit language choice of that user.
C16_StoredLanguageIsSticky ==
    [][\A u \in DOMAIN user_preferences :
          /\ u \in DOMAIN user_preferences'
          /\ user_preferences'[u] # user_preferences[u]
             => (last'.user_id = u /\ IsExplicitLanguageChoice(last'))]_vars

\* the text generate_response returned in the operation recorded in r:
\* the response field of the chat route, the reply of a webhook handler
ReturnedText(r) ==
    IF r.op = "send_message" THEN r.ret.response ELSE r.replies[1].text

\* C17: when the LLM has answered and a save_message after it fails,
\* generate_response still returns the LLM's answer.
C17_ReplySurvivesLogWriteFailure ==
    (/\ last.llm = "ok"
     /\ last.db \in {"user_fails", "assistant_fails"}
     /\ last.raised = None)
    => ReturnedText(last) = LLMReply

\* rows is a sequence of pairs: a user row, then an assistant row
IsPairs(rows) ==
    /\ Len(rows) % 2 = 0
    /\ \A i \in 1..Len(rows) :
           rows[i].role = (IF i % 2 = 1 THEN "user" ELSE "assistant")

\* C18: an exchange that succeeds appends the user row and then the
\* assistant row to the user's log and nothing else, and after every step
\* the log of every user is a sequence of user/assistant pairs.
C18_LogIsUserAssistantPairs ==
    [][\A u \in BotUsers :
          /\ (last'.user_id = u /\ last'.llm = "ok" /\ last'.db = "ok")
             => LET old == RowsOf(conversations, u)
                    new == RowsOf(conversations', u)
                IN /\ Len(new) = Len(old) + 2
                   /\ SubSeq(new, 1, Len(old)) = old
                   /\ new[Len(old) + 1].role = "user"
                   /\ new[Len(old) + 2].role = "assistant"
                   /\ new[Len(old) + 2].content = LLMReply
          /\ IsPairs(RowsOf(conversations', u))]_vars

\* C19: a set_user_language call that runs concurrently with another ends
\* without an error, and when two calls for one user have both ended the
\* stored language is the one written by one of them.
C19_ConcurrentUpsertLastWriterWins ==
    /\ \A t \in Tasks : tasks[t].pc = "done" => tasks[t].error = None
    /\ \A t1, t2 \in Tasks :
           (/\ t1 # t2
            /\ tasks[t1].pc = "done" /\ tasks[t2].pc = "done"
            /\ tasks[t1].user_id = tasks[t2].user_id)
           => StoredLanguage(user_preferences, tasks[t1].user_id)
                  \in {tasks[t1].arg, tasks[t2].arg}

\* the rows task t has written to the log of user u so far
Written(t, u) ==
    LET c == tasks[t]
        user_row      == [user_id |-> u, role |-> "user",
                          content |-> c.arg, created_at |-> now]
        assistant_row == [user_id |-> u, role |-> "assistant",
                          content |-> LLMReply, created_at |-> now]
    IN IF c.user_id # u THEN <<>>
       ELSE IF c.pc = "user_saved" THEN <<user_row>>
       ELSE IF c.pc = "done" /\ c.error = None THEN <<user_row, assistant_row>>
       ELSE <<>>

\* s holds exactly the entries of a and of b, each in its own order
RECURSIVE IsInterleaving(_, _, _)
IsInterleaving(s, a, b) ==
    IF s = <<>> THEN a = <<>> /\ b = <<>>
    ELSE \/ a # <<>> /\ Head(s) = Head(a) /\ IsInterleaving(Tail(s), Tail(a), b)
         \/ b # <<>> /\ Head(s) = Head(b) /\ IsInterleaving(Tail(s), a, Tail(b))

\* C20: while two exchanges run concurrently a user's log holds every entry
\* the exchanges have written so far, each exchange's entries in their
\* order, and nothing else: when both have succeeded for one user, all four.
C20_ConcurrentExchangesLoseNoEntry ==
    \A u \in Users :
        IsInterleaving(RowsOf(conversations, u), Written(1, u), Written(2, u))

\* C20 witness: two exchanges of one user have both succeeded and their
\* entries interleave: user, user, assistant, assistant.
C20_Witness ==
    /\ \A t \in Tasks : tasks[t].pc = "done" /\ tasks[t].error = None
    /\ tasks[1].user_id = tasks[2].user_id
    /\ tasks[1].arg # tasks[2].arg
    /\ Len(conversations) = 4
    /\ conversations[1].role = "user" /\ conversations[2].role = "user"
    /\ conversations[3].role = "assistant" /\ conversations[4].role = "assistant"

\* C21: save_message, clear_user_conversation and set_user_language for
\* one user leave the rows, the history and the stored language of every
\* other user as they were.
C21_PerUserIsolation ==
    [][\A u2 \in Users :
          (/\ last'.op \in {"save_message", "clear_user_conversation",
                             "set_user_language"}
           /\ last'.user_id # u2)
          => (/\ RowsOf(conversations', u2) = RowsOf(conversations, u2)
              /\ get_conversation_history(conversations', u2, MaxLog) =
                     get_conversation_history(conversations, u2, MaxLog)
              /\ StoredLanguage(user_preferences', u2) =
                     StoredLanguage(user_preferences, u2))]_vars

\* C21 witness: a user's rows were cleared while another user has rows
\* and a stored language different from the first user's.
C21_Witness ==
    /\ last.op = "clear_user_conversation"
    /\ last.ret >= 1
    /\ \E u2 \in Users \ {last.user_id} :
           /\ RowsOf(conversations, u2) # <<>>
           /\ u2 \in DOMAIN user_preferences
           /\ last.user_id \in DOMAIN user_preferences
           /\ user_preferences[u2] # user_preferences[last.user_id]

\* what get_group_settings is to return for a group with settings
SettingsDict(enabled, target, by) ==
    [raised |-> None,
     value  |-> [translate_enabled |-> enabled, target_language |-> target,
                 enabled_by |-> by]]

\* C22: get_group_settings returns None for a group without settings, and
\* right after enable_group_translation(g, lang, by), for a group with or
\* without earlier settings, it returns enabled = true, target_language =
\* lang, enabled_by = by.
C22_EnableThenGetGroupSettings ==
    /\ (last.op = "get_group_settings" /\ last.arg[1] \notin DOMAIN group_settings)
       => (last.raised = None /\ last.ret = None)
    /\ last.op = "enable_group_translation"
       => (/\ last.raised = None
           /\ get_group_settings(group_settings, last.arg[1]) =
                  SettingsDict(TRUE, last.arg[2], last.user_id))

IsBadTranslateOn(text) ==
    LET match == translate_match(Lower(text)) IN
    /\ match.matched
    /\ match.action = "on"
    /\ match.language \notin TranslateLanguages

IsTranslateToggle(text) == translate_match(Lower(text)).matched

\* C25: a '/translate on|off' command of a group member who is not an
\* admin of the group leaves the group settings unchanged and is answered
\* with the 'admin_only' refusal.
C25_NonAdminIsRefused ==
    (/\ last.op = "handle_group_message"
     /\ IsTranslateToggle(last.arg[2])
     /\ ~last.arg[3])
    => /\ group_settings = last.before
       /\ last.raised = None
       /\ last.replies = <<TextMessage(get_message("admin_only", None))>>

C26_CleanupDeletesExactlyOldRows ==
    [][last'.op = "cleanup_old_conversations"
       => LET cutoff == now - last'.arg[1] * SecondsPerDay IN
          /\ \E limit \in {cutoff, cutoff + 1} :
                 conversations' =
                     SelectSeq(conversations, LAMBDA r : r.created_at >= limit)
          /\ last'.ret = Len(conversations) - Len(conversations')
          /\ user_preferences' = user_preferences
          /\ group_settings' = group_settings]_vars

C30_OneInitializedDatabaseService ==
    /\ \A t \in Callers :
           tasks[t].pc = "returned"
           => /\ tasks[t].instance = _db_service
              /\ tasks[t].initialized
    /\ Cardinality(DOMAIN databases) <= 1
    /\ \A i \in DOMAIN databases : databases[i].init_db_calls = 1

\* the menus a call of create_language_rich_menus made that are still on
\* the platform after it
NewMenus == DOMAIN rich_menus' \ DOMAIN rich_menus

\* every entry the call wrote names a menu that was there under the
\* language's name before the call, or one made in the call with its image
RegisteredAreReusedOrUploaded ==
    \A l \in DOMAIN language_menus' :
        (l \notin DOMAIN language_menus \/ language_menus'[l] # language_menus[l])
        => \/ /\ language_menus'[l] \in DOMAIN rich_menus
              /\ rich_menus[language_menus'[l]].name = language_names[l]
           \/ /\ language_menus'[l] \in NewMenus
              /\ rich_menus'[language_menus'[l]].image

====
